---- MODULE Spec2Model ----
(***************************************************************************)
(* terraview: the graph preparation pass of internal/graph (the latest      *)
(* revision, src/unnamed/part_006 lines 482-1218), the state adapter of     *)
(* internal/tfstatereader and the configuration of internal/config.         *)
(*                                                                          *)
(* A resource address "type.name[idx]" is the tuple <<type, name, idx>>;    *)
(* idx is <<>> when the address carries no bracket and <<k>> for "[k]".     *)
(* gographviz keeps the node list in a Go slice and the edge and relation   *)
(* indices in Go maps; the model keeps the slice's backing array that a     *)
(* range loop holds, and treats every map iteration order as a choice.      *)
(***************************************************************************)
EXTENDS Integers, Sequences, FiniteSets, TLC

\* ------------------------------------------------------------ bounds
\* largest number of instances the state reports for one template
MaxInst == 2
\* largest number of parallel edges the DOT text holds for one ordered pair
MaxParallel == 2
\* largest number of nodes whose instance list the state adapter fails to return
MaxListErrors == 1
\* largest number of nodes for which the state lookup of the attributes fails
MaxLookupErrors == 1

\* ------------------------------------------------------------ names
T_RG == "azurerm_resource_group"
T_VNET == "azurerm_virtual_network"
T_SNET == "azurerm_subnet"
T_VM == "azurerm_linux_virtual_machine"

NoIndex == <<>>

RG == <<T_RG, "rg", NoIndex>>
VNET == <<T_VNET, "vnet", NoIndex>>
SNET == <<T_SNET, "snet", NoIndex>>
VM == <<T_VM, "vm", NoIndex>>

\* the empty string: findRootNode's "no root", FindNodeParent's "no parent"
EmptyName == <<>>

\* the name of the top-level graph of the parsed DOT text
GraphName == <<"G">>

\* clusterName := "cluster_" + cleanNodeName
ClusterName(node) == <<"cluster_", node>>

\* strings.Split(name, ".")[0]; the empty string has the empty type
ResourceType(name) == IF name = EmptyName THEN "" ELSE name[1]

\* label[Index("[")+1 : Index("]")] when the label holds "[" and "]", else ""
IndexMarker(lbl) == IF lbl = EmptyName THEN NoIndex ELSE lbl[3]

\* strings.Replace(node, label, resourceName, 1): node names equal their labels
StringsReplace(node, lbl, resourceName) == IF node = lbl THEN resourceName ELSE node

\* var groupingLabels, hard-coded in BetaCreateSubgraphsForGroupingNodes
groupingLabels == {T_VNET, T_RG, T_SNET}

\* globalConfig's built-in value of grouping_elements
DefaultGroupingElements == {T_SNET, T_VNET, T_RG}

\* ------------------------------------------------------------ helpers
Range(s) == {s[k] : k \in DOMAIN s}

RemoveAt(s, k) == SubSeq(s, 1, k - 1) \o SubSeq(s, k + 1, Len(s))

IndexIn(s, x) == CHOOSE k \in DOMAIN s : s[k] = x /\ \A m \in 1..(k - 1) : s[m] # x

\* a multiset of edges <<src, dst>> as a function to counts
Count(m, e) == IF e \in DOMAIN m THEN m[e] ELSE 0

RECURSIVE SumCounts(_, _)
SumCounts(m, S) ==
  IF S = {} THEN 0
  ELSE LET e == CHOOSE x \in S : TRUE IN Count(m, e) + SumCounts(m, S \ {e})

\* ------------------------------------------------------------ state adapter
\* h.State.List() restricted to the instance addresses of `lbl`
InstanceAddrs(list, lbl) ==
  {res \in list : lbl # EmptyName /\ lbl[3] = NoIndex /\ res[1] = lbl[1]
                  /\ res[2] = lbl[2] /\ res[3] # NoIndex}

IsCreatedWithList(list, lbl) == InstanceAddrs(list, lbl) # {}

\* the matching addresses in the order of the state's list (by index)
RECURSIVE SortByIndex(_)
SortByIndex(S) ==
  IF S = {} THEN <<>>
  ELSE LET lo == CHOOSE x \in S : \A y \in S : x[3][1] <= y[3][1]
       IN <<lo>> \o SortByIndex(S \ {lo})

GetListOfNamesForResource(list, lbl) == SortByIndex(InstanceAddrs(list, lbl))

\* ------------------------------------------------------------ gographviz
\* The graph value: Nodes/Cap are the slice g.Nodes.Nodes and its capacity,
\* Lookup maps a node name to its attributes, Edges is the flat edge list (as a
\* multiset), SrcToDsts/DstToSrcs map an edge key to the length of its edge
\* list (a key whose list became empty stays), ParentToChildren holds pairs
\* <<parent, child>> and ChildToParents pairs <<child, parent>>, SubGraphs maps
\* a cluster name to its attributes.

\* append's growth of a full slice of pointers: 0 -> 1, then doubled
GrowCap(c) == IF c = 0 THEN 1 ELSE 2 * c

RECURSIVE CapAfterAppends(_, _)
CapAfterAppends(c, n) == IF n <= c THEN c ELSE CapAfterAppends(GrowCap(c), n)

\* A heap value h pairs the graph with the backing array a running
\* `range graph.Nodes.Nodes` loop holds: h.arr is that array's first len
\* slots, h.shared tells whether g.Nodes.Nodes still lives in that array.

\* Nodes.Add: a known name only has its attributes extended; a new node is
\* appended, in place while the capacity lasts and into a fresh array otherwise
NodesAdd(h, name, attrs) ==
  LET g == h.g
      L == Len(g.Nodes)
  IN IF name \in DOMAIN g.Lookup
     THEN [h EXCEPT !.g.Lookup[name] = attrs @@ g.Lookup[name]]
     ELSE IF L < g.Cap
          THEN [h EXCEPT !.g.Nodes = Append(g.Nodes, name),
                         !.g.Lookup = g.Lookup @@ (name :> attrs),
                         !.arr = IF h.shared /\ L + 1 <= Len(h.arr)
                                 THEN [h.arr EXCEPT ![L + 1] = name]
                                 ELSE h.arr]
          ELSE [h EXCEPT !.g.Nodes = Append(g.Nodes, name),
                         !.g.Cap = GrowCap(g.Cap),
                         !.g.Lookup = g.Lookup @@ (name :> attrs),
                         !.shared = FALSE]

\* Nodes.Remove: append(nodes[:i], nodes[i+1:]...) shifts the tail left in place
NodesRemove(h, name) ==
  LET g == h.g
      L == Len(g.Nodes)
      j == IndexIn(g.Nodes, name)
  IN [h EXCEPT !.g.Nodes = RemoveAt(g.Nodes, j),
               !.g.Lookup = [x \in DOMAIN g.Lookup \ {name} |-> g.Lookup[x]],
               !.arr = IF h.shared
                       THEN [k \in DOMAIN h.arr |->
                               IF k >= j /\ k < L THEN g.Nodes[k + 1] ELSE h.arr[k]]
                       ELSE h.arr]

RelationsAdd(g, parent, child) ==
  [g EXCEPT !.ParentToChildren = @ \cup {<<parent, child>>},
            !.ChildToParents = @ \cup {<<child, parent>>}]

RelationsRemove(g, parent, child) ==
  [g EXCEPT !.ParentToChildren = @ \ {<<parent, child>>},
            !.ChildToParents = @ \ {<<child, parent>>}]

\* Edges.Add, c times, of the edge src -> dst
EdgesAdd(g, src, dst, c) ==
  LET add(m, e) == IF c = 0 THEN m
                   ELSE IF e \in DOMAIN m THEN [m EXCEPT ![e] = @ + c] ELSE m @@ (e :> c)
  IN [g EXCEPT !.Edges = add(@, <<src, dst>>),
               !.SrcToDsts = add(@, <<src, dst>>),
               !.DstToSrcs = add(@, <<dst, src>>)]

\* Graph.AddNode
AddNode(h, parentGraph, name, attrs) ==
  LET h1 == NodesAdd(h, name, attrs)
  IN [h1 EXCEPT !.g = RelationsAdd(h1.g, parentGraph, name)]

\* a Graph.RemoveNode that forgets to rebuild the edge indices
RemoveNodeKeepEdges(h, parentGraph, name) ==
  IF name \notin DOMAIN h.g.Lookup THEN h
  ELSE LET h1 == NodesRemove(h, name)
       IN [h1 EXCEPT !.g = RelationsRemove(h1.g, parentGraph, name)]

\* Graph.RemoveNode: the node leaves the list, the relation to parentGraph is
\* dropped and the three edge indices are rebuilt without the node's edges
RemoveNode(h, parentGraph, name) ==
  IF name \notin DOMAIN h.g.Lookup THEN h
  ELSE LET h1 == NodesRemove(h, name)
           g1 == RelationsRemove(h1.g, parentGraph, name)
           keep == {e \in DOMAIN g1.Edges : e[1] # name /\ e[2] # name}
       IN [h1 EXCEPT !.g = [g1 EXCEPT
             !.Edges = [e \in keep |-> g1.Edges[e]],
             !.SrcToDsts = [e \in keep |-> g1.Edges[e]],
             !.DstToSrcs = [e \in {<<x[2], x[1]>> : x \in keep} |-> g1.Edges[<<e[2], e[1]>>]]]]

\* an AddSubGraph that records the new cluster as its own parent
AddSubGraphUnderItself(g, parentGraph, name, attrs) ==
  LET g1 == RelationsAdd(g, name, name)
  IN [g1 EXCEPT !.SubGraphs = @ @@ (name :> attrs)]

\* Graph.AddSubGraph(parentGraph, name, {"label": name})
AddSubGraph(g, parentGraph, name, attrs) ==
  LET g1 == RelationsAdd(g, parentGraph, name)
  IN [g1 EXCEPT !.SubGraphs = IF name \in DOMAIN @
                              THEN [@ EXCEPT ![name] = attrs @@ @]
                              ELSE @ @@ (name :> attrs)]

\* the destinations (sources) of a node with a non-empty edge list
DstsOf(g, node) == {e[2] : e \in {k \in DOMAIN g.SrcToDsts : k[1] = node /\ g.SrcToDsts[k] > 0}}

SrcsOf(g, node) == {e[2] : e \in {k \in DOMAIN g.DstToSrcs : k[1] = node /\ g.DstToSrcs[k] > 0}}

OutDegree(g, node) == SumCounts(g.Edges, {e \in DOMAIN g.Edges : e[1] = node})

InDegree(g, node) == SumCounts(g.Edges, {e \in DOMAIN g.Edges : e[2] = node})

\* ------------------------------------------------------------ graph.go
\* FindNodeParent: the last parent the map iteration yields, "" without parents
FindNodeParent(g, nodeName) ==
  LET parents == {r[2] : r \in {x \in g.ChildToParents : x[1] = nodeName}}
  IN IF parents = {} THEN {EmptyName} ELSE parents

\* an expansion that copies the template's outgoing edges only
RECURSIVE ExpandInstancesNoIncoming(_, _, _, _, _)
ExpandInstancesNoIncoming(h, node, lbl, parentGraph, resourceNames) ==
  IF resourceNames = <<>> THEN h
  ELSE LET resourceName == Head(resourceNames)
           newNodeName == StringsReplace(node, lbl, resourceName)
           newNodeAttrs == ("label" :> resourceName) @@ h.g.Lookup[node]
           h1 == AddNode(h, parentGraph, newNodeName, newNodeAttrs)
           outs == {k \in DOMAIN h1.g.SrcToDsts : k[1] = node /\ h1.g.SrcToDsts[k] > 0}
           RECURSIVE AddOut(_, _)
           AddOut(g, S) ==
             IF S = {} THEN g
             ELSE LET k == CHOOSE x \in S : TRUE
                  IN AddOut(EdgesAdd(g, newNodeName, k[2], h1.g.SrcToDsts[k]), S \ {k})
       IN ExpandInstancesNoIncoming([h1 EXCEPT !.g = AddOut(h1.g, outs)], node, lbl,
                                    parentGraph, Tail(resourceNames))

\* an expansion whose instance nodes get a label and nothing else
RECURSIVE ExpandInstancesLabelOnly(_, _, _, _, _)
ExpandInstancesLabelOnly(h, node, lbl, parentGraph, resourceNames) ==
  IF resourceNames = <<>> THEN h
  ELSE LET resourceName == Head(resourceNames)
           newNodeName == StringsReplace(node, lbl, resourceName)
           newNodeAttrs == ("label" :> resourceName)
           h1 == AddNode(h, parentGraph, newNodeName, newNodeAttrs)
           outs == {k \in DOMAIN h1.g.SrcToDsts : k[1] = node /\ h1.g.SrcToDsts[k] > 0}
           RECURSIVE AddOut(_, _)
           AddOut(g, S) ==
             IF S = {} THEN g
             ELSE LET k == CHOOSE x \in S : TRUE
                  IN AddOut(EdgesAdd(g, newNodeName, k[2], h1.g.SrcToDsts[k]), S \ {k})
           g2 == AddOut(h1.g, outs)
           ins == {k \in DOMAIN g2.DstToSrcs : k[1] = node /\ g2.DstToSrcs[k] > 0}
           RECURSIVE AddIn(_, _)
           AddIn(g, S) ==
             IF S = {} THEN g
             ELSE LET k == CHOOSE x \in S : TRUE
                  IN AddIn(EdgesAdd(g, k[2], newNodeName, g2.DstToSrcs[k]), S \ {k})
           g3 == AddIn(g2, ins)
       IN ExpandInstancesLabelOnly([h1 EXCEPT !.g = g3], node, lbl, parentGraph, Tail(resourceNames))

\* the body of `for _, resourceName := range resourceNames`: one instance node
\* with the template's attributes and its own label, one edge to every
\* destination and one from every source of the template
RECURSIVE ExpandInstances(_, _, _, _, _)
ExpandInstances(h, node, lbl, parentGraph, resourceNames) ==
  IF resourceNames = <<>> THEN h
  ELSE LET resourceName == Head(resourceNames)
           newNodeName == StringsReplace(node, lbl, resourceName)
           newNodeAttrs == ("label" :> resourceName) @@ h.g.Lookup[node]
           h1 == AddNode(h, parentGraph, newNodeName, newNodeAttrs)
           outs == {k \in DOMAIN h1.g.SrcToDsts : k[1] = node /\ h1.g.SrcToDsts[k] > 0}
           RECURSIVE AddOut(_, _)
           AddOut(g, S) ==
             IF S = {} THEN g
             ELSE LET k == CHOOSE x \in S : TRUE
                  IN AddOut(EdgesAdd(g, newNodeName, k[2], h1.g.SrcToDsts[k]), S \ {k})
           g2 == AddOut(h1.g, outs)
           ins == {k \in DOMAIN g2.DstToSrcs : k[1] = node /\ g2.DstToSrcs[k] > 0}
           RECURSIVE AddIn(_, _)
           AddIn(g, S) ==
             IF S = {} THEN g
             ELSE LET k == CHOOSE x \in S : TRUE
                  IN AddIn(EdgesAdd(g, k[2], newNodeName, g2.DstToSrcs[k]), S \ {k})
           g3 == AddIn(g2, ins)
       IN ExpandInstances([h1 EXCEPT !.g = g3], node, lbl, parentGraph, Tail(resourceNames))

\* a removeEdgeFromGraph that leaves the reverse index as it is
removeEdgeForwardOnly(g, edge) ==
  [g EXCEPT
     !.SrcToDsts = IF Count(@, edge) > 0 THEN [@ EXCEPT ![edge] = @ - 1] ELSE @,
     !.Edges = IF Count(@, edge) > 1 THEN [@ EXCEPT ![edge] = @ - 1]
               ELSE [e \in DOMAIN @ \ {edge} |-> @[e]]]

\* removeEdgeFromGraph: the first matching entry leaves each of the three indices
removeEdgeFromGraph(g, edge) ==
  LET rev == <<edge[2], edge[1]>>
  IN [g EXCEPT
       !.SrcToDsts = IF Count(@, edge) > 0 THEN [@ EXCEPT ![edge] = @ - 1] ELSE @,
       !.DstToSrcs = IF Count(@, rev) > 0 THEN [@ EXCEPT ![rev] = @ - 1] ELSE @,
       !.Edges = IF Count(@, edge) > 1 THEN [@ EXCEPT ![edge] = @ - 1]
                 ELSE [e \in DOMAIN @ \ {edge} |-> @[e]]]

\* a marker test that compares with == where the code compares with !=
MarkersDifferInverted(g, src, dst) ==
  LET currentIndex == IndexMarker(g.Lookup[src]["label"])
      dstIndex == IndexMarker(g.Lookup[dst]["label"])
  IN currentIndex # NoIndex /\ dstIndex # NoIndex /\ currentIndex = dstIndex

\* a marker test that lets an unmarked endpoint count as a different marker
MarkersDifferOneSided(g, src, dst) ==
  IndexMarker(g.Lookup[src]["label"]) # IndexMarker(g.Lookup[dst]["label"])

\* the test of CleanUpEdges on one edge: both labels carry a marker and the
\* markers differ
MarkersDiffer(g, src, dst) ==
  LET currentIndex == IndexMarker(g.Lookup[src]["label"])
      dstIndex == IndexMarker(g.Lookup[dst]["label"])
  IN currentIndex # NoIndex /\ dstIndex # NoIndex /\ currentIndex # dstIndex

RECURSIVE RemoveTimes(_, _, _)
RemoveTimes(g, edge, c) ==
  IF c = 0 THEN g ELSE RemoveTimes(removeEdgeFromGraph(g, edge), edge, c - 1)

\* CleanUpEdges: its traversal reaches every node once (the outer loop starts
\* it from every node not yet visited, and nothing changes the node list); at
\* each node every outgoing edge that fails the marker test is removed
RECURSIVE RemoveAll(_, _, _)
RemoveAll(g, g0, S) ==
  IF S = {} THEN g
  ELSE LET k == CHOOSE x \in S : TRUE
       IN RemoveAll(RemoveTimes(g, k, g0.SrcToDsts[k]), g0, S \ {k})

CleanUpEdgesOf(g) ==
  RemoveAll(g, g,
            {k \in DOMAIN g.SrcToDsts : g.SrcToDsts[k] > 0 /\ MarkersDiffer(g, k[1], k[2])})

\* ------------------------------------------------------------ decoration
KnownProviders == {"azurerm", "aws", "gcp"}

NODE_LABEL_LOCATION == "b"

GRAPH_LABEL_LOCATION == "b"

\* baseMargin of the call SetSubgraphMargins(graph, CalculateMaxDepth(graph), 10)
BaseMargin == 10

\* the text before the first "_" of a resource type
ProviderOf(type) ==
  IF type \in {T_RG, T_VNET, T_SNET, T_VM} THEN "azurerm" ELSE ""

\* IsResourceNode: the label starts with provider + "_" for a known provider
IsResourceNode(lbl) == lbl # EmptyName /\ ProviderOf(lbl[1]) \in KnownProviders

\* node.Attrs[key] = value[n] for the nodes n in the domain of value
SetNodeAttr(g, key, value) ==
  [g EXCEPT !.Lookup = [n \in DOMAIN @ |-> IF n \in DOMAIN value
                                          THEN (key :> value[n]) @@ @[n]
                                          ELSE @[n]]]

\* graph.Attrs[key] = value for every subgraph
SetSubGraphAttr(g, key, value) ==
  [g EXCEPT !.SubGraphs = [c \in DOMAIN @ |-> (key :> value) @@ @[c]]]

\* AddImageLabel: image = parts[0] + ".png" and shape = none on resource nodes
AddImageLabelOf(g) ==
  LET S == {n \in DOMAIN g.Lookup : IsResourceNode(g.Lookup[n]["label"])}
      g1 == SetNodeAttr(g, "image", [n \in S |-> <<g.Lookup[n]["label"][1], ".png">>])
  IN SetNodeAttr(g1, "shape", [n \in S |-> "none"])

PositionNodeLabelToOf(g, position) ==
  IF position \notin {"t", "c", "b"} THEN g
  ELSE SetNodeAttr(g, "labelloc", [n \in DOMAIN g.Lookup |-> position])

PositionGraphLabelToOf(g, position) ==
  IF position \notin {"t", "c", "b"} THEN g
  ELSE SetSubGraphAttr(g, "labelloc", position)

\* SetGraphFontsize(graph, 26.0, 20.0), the values as "%.1f" prints them
SetGraphFontsizeOf(g, graphValue, nodeValue) ==
  SetSubGraphAttr(SetNodeAttr(g, "fontsize", [n \in DOMAIN g.Lookup |-> nodeValue]),
                  "fontsize", graphValue)

\* AddMarginToNodes(graph, 1.5), the value as "%.2f" prints it
AddMarginToNodesOf(g, value) ==
  SetNodeAttr(g, "margin", [n \in DOMAIN g.Lookup |-> value])

ChildrenOf(g, node) == {r[2] : r \in {x \in g.ParentToChildren : x[1] = node}}

\* the pairs <<x, depth>> a traversal of ParentToChildren from `node`, entered
\* with `depth`, passes: clusters and plain nodes alike
RECURSIVE Descend(_, _, _)
Descend(g, node, depth) ==
  {<<node, depth>>} \cup UNION {Descend(g, child, depth + 1) : child \in ChildrenOf(g, node)}

\* CalculateMaxDepth: the largest depth a traversal from any subgraph passes
CalculateMaxDepth(g) ==
  LET passed == UNION {Descend(g, c, 1) : c \in DOMAIN g.SubGraphs}
  IN IF passed = {} THEN 0
     ELSE CHOOSE d \in {x[2] : x \in passed} : \A x \in passed : x[2] <= d

\* setMargins(node, 1) of SetSubgraphMargins for one subgraph of the outer loop
setMargins(g, node, maxDepth, baseMargin) ==
  LET passed == Descend(g, node, 1)
      hit == {x[1] : x \in passed} \cap DOMAIN g.SubGraphs
      depthOf(c) == CHOOSE d \in {x[2] : x \in {y \in passed : y[1] = c}} : TRUE
  IN [g EXCEPT !.SubGraphs =
        [c \in DOMAIN @ |->
           IF c \in hit THEN ("margin" :> (maxDepth - depthOf(c) + 1) * baseMargin) @@ @[c]
           ELSE @[c]]]

\* SetSubgraphMargins: the graphs the outer loop can leave, one for every
\* order in which the map of subgraphs can be iterated
RECURSIVE SetSubgraphMarginsFrom(_, _, _, _)
SetSubgraphMarginsFrom(g, todo, maxDepth, baseMargin) ==
  IF todo = {} THEN {g}
  ELSE UNION {SetSubgraphMarginsFrom(setMargins(g, c, maxDepth, baseMargin), todo \ {c},
                                     maxDepth, baseMargin) : c \in todo}

SetSubgraphMarginsOf(g, maxDepth, baseMargin) ==
  SetSubgraphMarginsFrom(g, DOMAIN g.SubGraphs, maxDepth, baseMargin)

\* the resource types of globalConfig's built-in important_attributes
DefaultImportantAttributes == {T_VM, T_SNET, T_VNET, T_RG}

\* the resource types of important_attributes in the configuration whose
\* grouping_elements are c: the built-in one, or a user's file that names the
\* virtual machine only
ImportantAttributes(c) ==
  IF c = DefaultGroupingElements THEN DefaultImportantAttributes ELSE {T_VM}

\* AddImportantAttributesToLabels from slot k of the node list on: a node whose
\* type is configured gets "\n" and the attribute text appended to its label;
\* the first node for which GetImportantAttributes returns an error ends the
\* loop with that error, the labels written before it staying as they are
RECURSIVE AddImportantAttributesFrom(_, _, _, _)
AddImportantAttributesFrom(g, k, important, failing) ==
  IF k > Len(g.Nodes) THEN [graph |-> g, err |-> EmptyName]
  ELSE LET node == g.Nodes[k]
           label == g.Lookup[node]["label"]
       IN IF label = EmptyName \/ ResourceType(label) \notin important
          THEN AddImportantAttributesFrom(g, k + 1, important, failing)
          ELSE IF node \in failing
               THEN [graph |-> g, err |-> node]
               ELSE AddImportantAttributesFrom(
                      [g EXCEPT !.Lookup[node]["label"] = Append(label, "\\n attributes")],
                      k + 1, important, failing)

AddImportantAttributesToLabelsOf(g, important, failing) ==
  AddImportantAttributesFrom(g, 1, important, failing)

\* the sets of nodes for which handler.GetImportantAttributes returns an error
\* (resource not found in the state, or none of the configured attributes)
FailingChoices(g) == {S \in SUBSET Range(g.Nodes) : Cardinality(S) <= MaxLookupErrors}

\* the decoration steps of PrepareGraphForPrinting applied to g in their order:
\* every result they can have
DecorateOutcomes(g, c) ==
  LET g1 == AddMarginToNodesOf(
              SetGraphFontsizeOf(
                PositionGraphLabelToOf(
                  PositionNodeLabelToOf(AddImageLabelOf(g), NODE_LABEL_LOCATION),
                  GRAPH_LABEL_LOCATION),
                "26.0", "20.0"),
              "1.50")
  IN {AddImportantAttributesToLabelsOf(g2, ImportantAttributes(c), failing) :
        g2 \in SetSubgraphMarginsOf(g1, CalculateMaxDepth(g1), BaseMargin),
        failing \in FailingChoices(g)}

\* ------------------------------------------------------------ inputs
\* the dependency graph `terraform graph` prints: an acyclic graph over the
\* listed resources, every edge pointing from a dependent to its dependency
\* each family: the node list in the order of the DOT text, the resources
\* of it that may be declared with count, and whether the DOT text may state
\* an edge more than once
InputFamilies ==
  { [nodes |-> <<VM, SNET, VNET, RG>>, multi |-> {VM}, parallel |-> FALSE],
    [nodes |-> <<VM, SNET, RG>>, multi |-> {VM, SNET}, parallel |-> FALSE],
    [nodes |-> <<SNET, VM, VNET>>, multi |-> {VM, SNET}, parallel |-> FALSE],
    [nodes |-> <<VM, SNET>>, multi |-> {VM, SNET}, parallel |-> TRUE] }

Rank(n) == CASE n = VM -> 1 [] n = SNET -> 2 [] n = VNET -> 3 [] n = RG -> 4

DagPairs(S) == {e \in S \X S : Rank(e[1]) < Rank(e[2])}

\* the state's resource list for the instance counts `inst`
StateList(inst) ==
  UNION {{<<t[1], t[2], <<k>>>> : k \in 0..(inst[t] - 1)} : t \in DOMAIN inst}

\* values of grouping_elements a user's configuration file may hold
UserConfigs == {{T_RG, T_VM}}

\* the --config-file flag of a run: "" when omitted, else a file that cannot
\* be read, one that is not YAML for a Config, or one that holds a
\* configuration
NoConfigFile == <<>>
UnreadableFile == <<"unreadable">>
MalformedFile == <<"malformed">>
ConfigFiles ==
  {NoConfigFile, UnreadableFile, MalformedFile} \cup {<<"yaml", c>> : c \in UserConfigs}

\* the errors Run prints before it returns without a diagram
ConfigError == <<"Could not load config">>
StateError == <<"failed to create TFStateHandler">>
GraphError == <<"failed to obtain graph data">>

\* the attributes the DOT text gives the node of a resource
ParsedAttrs(n) == ("label" :> n) @@ ("shape" :> "box")

ParsedGraph(nodeList, edgeSet, mult) ==
  [Nodes |-> nodeList,
   Cap |-> CapAfterAppends(0, Len(nodeList)),
   Lookup |-> [n \in Range(nodeList) |-> ParsedAttrs(n)],
   Edges |-> [e \in edgeSet |-> mult],
   SrcToDsts |-> [e \in edgeSet |-> mult],
   DstToSrcs |-> [e \in {<<x[2], x[1]>> : x \in edgeSet} |-> mult],
   ParentToChildren |-> {<<GraphName, n>> : n \in Range(nodeList)},
   ChildToParents |-> {<<n, GraphName>> : n \in Range(nodeList)},
   SubGraphs |-> [c \in {} |-> <<>>]]

\* the nil *gographviz.Graph Run holds while no graph was parsed
NilGraph == ParsedGraph(<<>>, {}, 1)

\* ------------------------------------------------------------ state
VARIABLES
  input,        \* what the run was given: node list, edges and their multiplicity, state list
  cfg,          \* globalConfig.GroupingElements
  pc,           \* the step Run is at
  graph,        \* the gographviz graph
  rangeArr,     \* backing array held by ExpandNodeCreatedWithList's outer loop
  rangeShared,  \* whether graph.Nodes.Nodes still lives in that array
  rangeIdx,     \* next index of that loop
  visited,      \* ExpandNodeCreatedWithList's visited map
  stack,        \* active dfs calls: node, destinations not yet produced by the
                \* range over SrcToDsts[node], whether that map is still the
                \* graph's own
  root,         \* findRootNode's result
  queue,        \* BFS's queue
  bfsVisited,   \* BFS's visited map
  nodes,        \* BFS's visitedNodes
  nodeIdx,      \* next index of BetaCreateSubgraphsForGroupingNodes's loop
  failedList,   \* nodes for which GetListOfNamesForResource returns an error
  err,          \* the error Run printed: the one of the source that was not
                \* available, or the node whose lookup made
                \* PrepareGraphForPrinting fail; "" while there is none
  again,        \* the outcome of decorating the returned graph once more,
                \* <<>> while that was not done
  firstRun      \* the outcome of an earlier run on the same input, <<>> if none

vars == <<input, cfg, pc, graph, rangeArr, rangeShared, rangeIdx, visited, stack,
          root, queue, bfsVisited, nodes, nodeIdx, failedList, err, again, firstRun>>

decoVars == <<err, again>>

clusterVars == <<root, queue, bfsVisited, nodes, nodeIdx>>

StartOf(in) ==
  /\ pc = "config"
  /\ graph = NilGraph
  /\ rangeArr = <<>>
  /\ rangeShared = FALSE
  /\ rangeIdx = 1
  /\ visited = {}
  /\ stack = <<>>
  /\ root = EmptyName
  /\ queue = <<>>
  /\ bfsVisited = {}
  /\ nodes = <<>>
  /\ nodeIdx = 1

Inputs ==
  UNION {{[nodes |-> f.nodes, edges |-> es, mult |-> m, list |-> StateList(inst),
           configFile |-> file] :
            es \in SUBSET DagPairs(Range(f.nodes)),
            m \in IF f.parallel THEN 1..MaxParallel ELSE {1},
            inst \in [f.multi -> 0..MaxInst],
            file \in ConfigFiles} :
         f \in InputFamilies}

\* the process has started: globalConfig holds the built-in values
Init ==
  /\ input \in Inputs
  /\ cfg = DefaultGroupingElements
  /\ firstRun = <<>>
  /\ failedList = {}
  /\ err = EmptyName
  /\ again = <<>>
  /\ StartOf(input)

\* ------------------------------------------------------------ sources
runVars == <<rangeIdx, visited, stack, root, queue, bfsVisited, nodes, nodeIdx, failedList>>

\* LoadConfig assigns globalConfig before it has parsed the file
LoadConfigAssignEarly ==
  /\ pc = "config"
  /\ IF input.configFile = NoConfigFile
     THEN pc' = "state" /\ UNCHANGED <<cfg, err>>
     ELSE IF input.configFile \in {UnreadableFile, MalformedFile}
          THEN /\ cfg' = {}
               /\ err' = ConfigError
               /\ pc' = "aborted"
          ELSE /\ cfg' = input.configFile[2]
               /\ pc' = "state"
               /\ UNCHANGED err
  /\ UNCHANGED <<input, firstRun, again, graph, rangeArr, rangeShared, runVars>>

\* Run's first step: config.LoadConfig when the flag is given, which replaces
\* globalConfig only after the file was read and parsed; an error ends Run
LoadConfig ==
  /\ pc = "config"
  /\ IF input.configFile = NoConfigFile
     THEN pc' = "state" /\ UNCHANGED <<cfg, err>>
     ELSE IF input.configFile \in {UnreadableFile, MalformedFile}
          THEN /\ err' = ConfigError
               /\ pc' = "aborted"
               /\ UNCHANGED cfg
          ELSE /\ cfg' = input.configFile[2]
               /\ pc' = "state"
               /\ UNCHANGED err
  /\ UNCHANGED <<input, firstRun, again, graph, rangeArr, rangeShared, runVars>>

\* tfstatereader.NewTFStateHandler: the state is read, or Run prints the
\* error and returns
NewTFStateHandler ==
  /\ pc = "state"
  /\ \/ pc' = "obtain" /\ UNCHANGED err
     \/ pc' = "aborted" /\ err' = StateError
  /\ UNCHANGED <<input, cfg, firstRun, again, graph, rangeArr, rangeShared, runVars>>

\* PrepareGraphForPrinting goes on with a nil graph after ObtainGraph failed
ObtainGraphIgnoreError ==
  /\ pc = "obtain"
  /\ \/ /\ graph' = ParsedGraph(input.nodes, input.edges, input.mult)
        /\ rangeArr' = input.nodes
        /\ rangeShared' = TRUE
        /\ pc' = "expand"
        /\ UNCHANGED err
     \/ /\ err' = GraphError
        /\ pc' = "expand"
        /\ UNCHANGED <<graph, rangeArr, rangeShared>>
  /\ UNCHANGED <<input, cfg, firstRun, again, runVars>>

\* PrepareGraphForPrinting's call of ObtainGraph: the parsed graph, with which
\* the stages start, or nil and an error, with which PrepareGraphForPrinting
\* and then Run return
ObtainGraph ==
  /\ pc = "obtain"
  /\ \/ /\ graph' = ParsedGraph(input.nodes, input.edges, input.mult)
        /\ rangeArr' = input.nodes
        /\ rangeShared' = TRUE
        /\ pc' = "expand"
        /\ UNCHANGED err
     \/ /\ err' = GraphError
        /\ pc' = "aborted"
        /\ UNCHANGED <<graph, rangeArr, rangeShared>>
  /\ UNCHANGED <<input, cfg, firstRun, again, runVars>>

\* ------------------------------------------------------------ expansion
\* entries a dfs call would skip (already visited) are dropped, and calls whose
\* range is exhausted return
RECURSIVE Unwind(_)
Unwind(st) ==
  IF st # <<>> /\ st[Len(st)].todo = {} THEN Unwind(SubSeq(st, 1, Len(st) - 1)) ELSE st

Settle(st, vis) == Unwind([k \in DOMAIN st |-> [st[k] EXCEPT !.todo = @ \ vis]])

\* whether GetListOfNamesForResource returns an error for `node`: the adapter
\* gives one answer per node, the same in every run on the same state
ListFails(node) ==
  \/ node \in failedList
  \/ firstRun = <<>> /\ Cardinality(failedList) < MaxListErrors

\* a `return` on the list error that gives up every active dfs call
ListErrorAbandon(st, vis) == <<>>

\* the `return` after the list error is logged: this dfs call ends, the calls
\* below it go on with their ranges
ListErrorReturn(st, vis) == Settle(st, vis)

\* one call dfs(node) of ExpandNodeCreatedWithList up to its own range loop,
\* entered with `st` as the calls below it.  A template is replaced by its
\* instances; RemoveNode then installs a new Edges value, so the maps the
\* active calls range over no longer change, and the keys AddEdge inserted
\* into them before that may or may not be produced by their ranges.
dfs(node, st) ==
  LET lbl == graph.Lookup[node]["label"]
  IN /\ visited' = visited \cup {node}
     /\ IF IsCreatedWithList(input.list, lbl)
        THEN \/ /\ ListFails(node)
                /\ failedList' = failedList \cup {node}
                /\ stack' = ListErrorReturn(st, visited')
                /\ UNCHANGED <<graph, rangeArr, rangeShared>>
             \/ /\ node \notin failedList
                /\ UNCHANGED failedList
                /\ LET resourceNames == GetListOfNamesForResource(input.list, lbl)
                       newKeys == {StringsReplace(node, lbl, r) : r \in Range(resourceNames)}
                       affected == {k \in DOMAIN st :
                                      st[k].live
                                      /\ Count(graph.SrcToDsts, <<st[k].node, node>>) > 0}
                   IN \E parentGraph \in FindNodeParent(graph, node) :
                      \E produced \in [affected -> SUBSET newKeys] :
                        LET h0 == [g |-> graph, arr |-> rangeArr, shared |-> rangeShared]
                            h1 == ExpandInstances(h0, node, lbl, parentGraph, resourceNames)
                            h2 == RemoveNode(h1, parentGraph, node)
                        IN /\ graph' = h2.g
                           /\ rangeArr' = h2.arr
                           /\ rangeShared' = h2.shared
                           /\ stack' = Settle([k \in DOMAIN st |->
                                                 [st[k] EXCEPT
                                                    !.todo = IF k \in affected
                                                             THEN @ \cup produced[k] ELSE @,
                                                    !.live = FALSE]],
                                              visited')
        ELSE /\ stack' = Settle(Append(st, [node |-> node, todo |-> DstsOf(graph, node),
                                            live |-> TRUE]),
                                visited')
             /\ UNCHANGED <<graph, rangeArr, rangeShared, failedList>>

\* `for _, node := range graph.Nodes.Nodes`: the loop reads slot rangeIdx of
\* the array it captured when it started
ExpandOuterLoop ==
  /\ pc = "expand"
  /\ stack = <<>>
  /\ rangeIdx <= Len(rangeArr)
  /\ rangeIdx' = rangeIdx + 1
  /\ IF rangeArr[rangeIdx] \in visited
     THEN UNCHANGED <<graph, rangeArr, rangeShared, visited, stack, failedList>>
     ELSE dfs(rangeArr[rangeIdx], <<>>)
  /\ UNCHANGED <<input, cfg, firstRun, decoVars, pc, clusterVars>>

\* `for _, edgeList := range graph.Edges.SrcToDsts[node]`: the innermost
\* active call produces one more destination, in the map's order
ExpandVisitChild ==
  /\ pc = "expand"
  /\ stack # <<>>
  /\ \E dst \in stack[Len(stack)].todo :
       dfs(dst, [stack EXCEPT ![Len(stack)].todo = @ \ {dst}])
  /\ UNCHANGED <<input, cfg, firstRun, decoVars, pc, rangeIdx, clusterVars>>

\* ExpandNodeCreatedWithList returns: its locals are gone
ExpandReturn ==
  /\ pc = "expand"
  /\ stack = <<>>
  /\ rangeIdx > Len(rangeArr)
  /\ pc' = "cleanup"
  /\ rangeArr' = <<>>
  /\ rangeShared' = FALSE
  /\ rangeIdx' = 1
  /\ visited' = {}
  /\ UNCHANGED <<input, cfg, firstRun, decoVars, failedList, graph, stack, clusterVars>>

\* ------------------------------------------------------------ reconciliation
CleanUpEdges ==
  /\ pc = "cleanup"
  /\ graph' = CleanUpEdgesOf(graph)
  /\ pc' = "root"
  /\ UNCHANGED <<input, cfg, firstRun, decoVars, failedList, rangeArr, rangeShared, rangeIdx, visited, stack, clusterVars>>

\* ------------------------------------------------------------ clustering
\* findRootNode: some node whose out-degree over the flat edge list is 0, in
\* the order the outDegree map is iterated; "" when there is none
RootCandidates(g) ==
  LET zero == {n \in Range(g.Nodes) : OutDegree(g, n) = 0}
  IN IF zero = {} THEN {EmptyName} ELSE zero

findRootNode ==
  /\ pc = "root"
  /\ \E r \in RootCandidates(graph) :
       /\ root' = r
       /\ queue' = <<{r}>>
  /\ bfsVisited' = {}
  /\ nodes' = <<>>
  /\ pc' = "bfs"
  /\ UNCHANGED <<input, cfg, firstRun, decoVars, failedList, graph, rangeArr, rangeShared, rangeIdx, visited, stack, nodeIdx>>

\* The queue is kept as the batches BFS appended, one per visited node: a
\* batch holds the sources of that node which were unvisited when it was
\* appended (`if !visited[e.Src]`), and their order inside the batch, the
\* iteration order of the DstToSrcs map, is resolved when they are dequeued.
\* A source appended twice (parallel edges) is skipped the second time as
\* visited, so a batch is a set.
Enqueued(g, currentNode, vis) == SrcsOf(g, currentNode) \ vis

DropEmpty(q) == SelectSeq(q, LAMBDA b : b # {})

\* a traversal that puts the sources of the current node at the front of the
\* queue
BFSDepthFirst ==
  /\ pc = "bfs"
  /\ queue # <<>>
  /\ \E currentNode \in Head(queue) :
       LET rest == DropEmpty(<<Head(queue) \ {currentNode}>> \o Tail(queue))
       IN IF currentNode \in bfsVisited
          THEN /\ queue' = rest
               /\ UNCHANGED <<bfsVisited, nodes>>
          ELSE /\ bfsVisited' = bfsVisited \cup {currentNode}
               /\ nodes' = Append(nodes, currentNode)
               /\ queue' = DropEmpty(<<Enqueued(graph, currentNode, bfsVisited')>> \o rest)
  /\ UNCHANGED <<input, cfg, firstRun, decoVars, failedList, pc, graph, rangeArr, rangeShared, rangeIdx, visited, stack,
                 root, nodeIdx>>

\* a traversal without the visited map
BFSNoVisited ==
  /\ pc = "bfs"
  /\ queue # <<>>
  /\ \E currentNode \in Head(queue) :
       LET rest == DropEmpty(<<Head(queue) \ {currentNode}>> \o Tail(queue))
       IN /\ nodes' = Append(nodes, currentNode)
          /\ queue' = DropEmpty(rest \o <<SrcsOf(graph, currentNode)>>)
          /\ UNCHANGED bfsVisited
  /\ UNCHANGED <<input, cfg, firstRun, decoVars, failedList, pc, graph, rangeArr, rangeShared, rangeIdx, visited, stack,
                 root, nodeIdx>>

\* one iteration of BFS's `for len(queue) > 0`
BFS ==
  /\ pc = "bfs"
  /\ queue # <<>>
  /\ \E currentNode \in Head(queue) :
       LET rest == DropEmpty(<<Head(queue) \ {currentNode}>> \o Tail(queue))
       IN IF currentNode \in bfsVisited
          THEN /\ queue' = rest
               /\ UNCHANGED <<bfsVisited, nodes>>
          ELSE /\ bfsVisited' = bfsVisited \cup {currentNode}
               /\ nodes' = Append(nodes, currentNode)
               /\ queue' = DropEmpty(rest \o <<Enqueued(graph, currentNode, bfsVisited')>>)
  /\ UNCHANGED <<input, cfg, firstRun, decoVars, failedList, pc, graph, rangeArr, rangeShared, rangeIdx, visited, stack,
                 root, nodeIdx>>

\* BFS returns visitedNodes: its other locals are gone
BFSReturn ==
  /\ pc = "bfs"
  /\ queue = <<>>
  /\ pc' = "cluster"
  /\ nodeIdx' = 1
  /\ bfsVisited' = {}
  /\ UNCHANGED <<input, cfg, firstRun, decoVars, failedList, graph, rangeArr, rangeShared, rangeIdx, visited, stack,
                 root, queue, nodes>>

\* findAllReachingNodes: the reverse traversal follows the keys of DstToSrcs,
\* whether or not the key's edge list still holds an edge
RECURSIVE ReachingFrom(_, _)
ReachingFrom(g, S) ==
  LET more == {k[2] : k \in {x \in DOMAIN g.DstToSrcs : x[1] \in S}} \ S
  IN IF more = {} THEN S ELSE ReachingFrom(g, S \cup more)

findAllReachingNodes(g, targetNode) == ReachingFrom(g, {targetNode})

\* a SetChildOf without the two loops that drop the earlier parents
SetChildOfKeepOld(g, graphName, nodeName) ==
  [g EXCEPT
     !.ParentToChildren = @ \cup {<<graphName, nodeName>>},
     !.ChildToParents = @ \cup {<<nodeName, graphName>>}]

\* a SetChildOf without the second loop: the child keeps its earlier parents in
\* ChildToParents
SetChildOfForwardOnly(g, graphName, nodeName) ==
  [g EXCEPT
     !.ParentToChildren = {r \in @ : r[2] # nodeName} \cup {<<graphName, nodeName>>},
     !.ChildToParents = @ \cup {<<nodeName, graphName>>}]

\* SetChildOf: nodeName becomes a child of graphName and of nothing else
SetChildOf(g, graphName, nodeName) ==
  [g EXCEPT
     !.ParentToChildren = {r \in @ : r[2] # nodeName} \cup {<<graphName, nodeName>>},
     !.ChildToParents = {r \in @ : r[1] # nodeName} \cup {<<nodeName, graphName>>}]

RECURSIVE SetChildOfEach(_, _, _)
SetChildOfEach(g, graphName, S) ==
  IF S = {} THEN g
  ELSE LET n == CHOOSE x \in S : TRUE
       IN SetChildOfEach(SetChildOf(g, graphName, n), graphName, S \ {n})

\* contains(groupingLabels, strings.Split(cleanNodeName, ".")[0])
foundGroupingResource(node) == ResourceType(node) \in groupingLabels

\* one iteration of `for _, node := range nodes`
BetaCreateSubgraphsForGroupingNodes ==
  /\ pc = "cluster"
  /\ nodeIdx <= Len(nodes)
  /\ nodeIdx' = nodeIdx + 1
  /\ LET node == nodes[nodeIdx]
         clusterName == ClusterName(node)
     IN IF foundGroupingResource(node)
        THEN \E parentGraph \in FindNodeParent(graph, node) :
               graph' = SetChildOfEach(
                          AddSubGraph(graph, parentGraph, clusterName,
                                      ("label" :> clusterName)),
                          clusterName, findAllReachingNodes(graph, node))
        ELSE UNCHANGED graph
  /\ UNCHANGED <<input, cfg, firstRun, decoVars, failedList, pc, rangeArr, rangeShared, rangeIdx, visited, stack,
                 root, queue, bfsVisited, nodes>>

\* the decoration steps start while nodes of the BFS order are still to be
\* processed
ClusteringReturnBeforeEnd ==
  /\ pc = "cluster"
  /\ pc' = "image"
  /\ nodes' = <<>>
  /\ nodeIdx' = 1
  /\ UNCHANGED <<input, cfg, firstRun, decoVars, failedList, graph, rangeArr, rangeShared, rangeIdx, visited, stack,
                 root, queue, bfsVisited>>

\* BetaCreateSubgraphsForGroupingNodes returns: its locals are gone
ClusteringReturn ==
  /\ pc = "cluster"
  /\ nodeIdx > Len(nodes)
  /\ pc' = "image"
  /\ nodes' = <<>>
  /\ nodeIdx' = 1
  /\ UNCHANGED <<input, cfg, firstRun, decoVars, failedList, graph, rangeArr, rangeShared, rangeIdx, visited, stack,
                 root, queue, bfsVisited>>

\* ------------------------------------------------------------ decoration stages
traversalVars == <<rangeArr, rangeShared, rangeIdx, visited, stack, failedList, clusterVars>>

AddImageLabel ==
  /\ pc = "image"
  /\ graph' = AddImageLabelOf(graph)
  /\ pc' = "nodeloc"
  /\ UNCHANGED <<input, cfg, firstRun, decoVars, traversalVars>>

PositionNodeLabelTo ==
  /\ pc = "nodeloc"
  /\ graph' = PositionNodeLabelToOf(graph, NODE_LABEL_LOCATION)
  /\ pc' = "graphloc"
  /\ UNCHANGED <<input, cfg, firstRun, decoVars, traversalVars>>

PositionGraphLabelTo ==
  /\ pc = "graphloc"
  /\ graph' = PositionGraphLabelToOf(graph, GRAPH_LABEL_LOCATION)
  /\ pc' = "fontsize"
  /\ UNCHANGED <<input, cfg, firstRun, decoVars, traversalVars>>

SetGraphFontsize ==
  /\ pc = "fontsize"
  /\ graph' = SetGraphFontsizeOf(graph, "26.0", "20.0")
  /\ pc' = "nodemargin"
  /\ UNCHANGED <<input, cfg, firstRun, decoVars, traversalVars>>

AddMarginToNodes ==
  /\ pc = "nodemargin"
  /\ graph' = AddMarginToNodesOf(graph, "1.50")
  /\ pc' = "submargin"
  /\ UNCHANGED <<input, cfg, firstRun, decoVars, traversalVars>>

\* SetSubgraphMargins(graph, CalculateMaxDepth(graph), 10)
SetSubgraphMargins ==
  /\ pc = "submargin"
  /\ graph' \in SetSubgraphMarginsOf(graph, CalculateMaxDepth(graph), BaseMargin)
  /\ pc' = "important"
  /\ UNCHANGED <<input, cfg, firstRun, decoVars, traversalVars>>

\* AddImportantAttributesToLabels and the return of PrepareGraphForPrinting:
\* the graph, or nil and the error
AddImportantAttributesToLabels ==
  /\ pc = "important"
  /\ \E failing \in FailingChoices(graph) :
       LET r == AddImportantAttributesToLabelsOf(graph, ImportantAttributes(cfg), failing)
       IN /\ graph' = r.graph
          /\ err' = r.err
          /\ pc' = IF r.err = EmptyName THEN "done" ELSE "failed"
  /\ UNCHANGED <<input, cfg, firstRun, again, traversalVars>>

\* render.SaveGraphAs: Run hands the graph PrepareGraphForPrinting returned
\* to the renderer
SaveGraphAs ==
  /\ pc = "done"
  /\ pc' = "rendered"
  /\ UNCHANGED <<input, cfg, firstRun, decoVars, graph, traversalVars>>

\* the decoration steps are applied once more to the graph that was returned
DecorateAgain ==
  /\ pc = "done"
  /\ again = <<>>
  /\ again' \in DecorateOutcomes(graph, cfg)
  /\ UNCHANGED <<input, cfg, firstRun, pc, graph, err, traversalVars>>

\* ------------------------------------------------------------ specification
Next ==
  \/ LoadConfig
  \/ NewTFStateHandler
  \/ ObtainGraph
  \/ ExpandOuterLoop
  \/ ExpandVisitChild
  \/ ExpandReturn
  \/ CleanUpEdges
  \/ findRootNode
  \/ BFS
  \/ BFSReturn
  \/ BetaCreateSubgraphsForGroupingNodes
  \/ ClusteringReturn
  \/ AddImageLabel
  \/ PositionNodeLabelTo
  \/ PositionGraphLabelTo
  \/ SetGraphFontsize
  \/ AddMarginToNodes
  \/ SetSubgraphMargins
  \/ AddImportantAttributesToLabels
  \/ SaveGraphAs

Spec == Init /\ [][Next]_vars

\* what a run hands to the renderer, as far as clustering decides it
Outcome ==
  [root |-> root,
   clusters |-> DOMAIN graph.SubGraphs,
   parents |-> graph.ChildToParents]

\* the program is run once more on the same directory, state and configuration
SecondRun ==
  /\ pc = "done"
  /\ firstRun = <<>>
  /\ firstRun' = Outcome
  /\ pc' = "expand"
  /\ graph' = ParsedGraph(input.nodes, input.edges, input.mult)
  /\ rangeArr' = input.nodes
  /\ rangeShared' = TRUE
  /\ rangeIdx' = 1
  /\ visited' = {}
  /\ stack' = <<>>
  /\ root' = EmptyName
  /\ queue' = <<>>
  /\ bfsVisited' = {}
  /\ nodes' = <<>>
  /\ nodeIdx' = 1
  /\ err' = EmptyName
  /\ again' = <<>>
  /\ UNCHANGED <<input, cfg, failedList>>

NextTwoRuns == Next \/ SecondRun

\* a run after which the decoration steps are applied a second time
NextDecoratedTwice == Next \/ DecorateAgain

SpecDecoratedTwice == Init /\ [][NextDecoratedTwice]_vars

SpecTwoRuns == Init /\ [][NextTwoRuns]_vars

\* dependency graphs of any shape over the listed resources: any set of edges,
\* self-loops and cycles included
ArbitraryFamilies ==
  { [nodes |-> <<VM, SNET>>, multi |-> {VM, SNET}],
    [nodes |-> <<VM, SNET, VNET>>, multi |-> {VM}] }

ArbitraryInputs ==
  UNION {{[nodes |-> f.nodes, edges |-> es, mult |-> 1, list |-> StateList(inst),
           configFile |-> NoConfigFile] :
            es \in SUBSET (Range(f.nodes) \X Range(f.nodes)),
            inst \in [f.multi -> 0..MaxInst]} :
         f \in ArbitraryFamilies}

InitArbitrary ==
  /\ input \in ArbitraryInputs
  /\ cfg = DefaultGroupingElements
  /\ firstRun = <<>>
  /\ failedList = {}
  /\ err = EmptyName
  /\ again = <<>>
  /\ StartOf(input)

SpecArbitrary == InitArbitrary /\ [][Next]_vars

\* ------------------------------------------------------------ properties
Existing == DOMAIN graph.Lookup

ParentsOf(x) == {r[2] : r \in {y \in graph.ChildToParents : y[1] = x}}

ListedBy(x) == {r[1] : r \in {y \in graph.ParentToChildren : y[2] = x}}

HasCluster(n) == ClusterName(n) \in DOMAIN graph.SubGraphs

\* the nodes with a path of edges of the flat edge list to `target`
RECURSIVE PathTo(_, _)
PathTo(g, S) ==
  LET more == {e[1] : e \in {x \in DOMAIN g.Edges : x[2] \in S}} \ S
  IN IF more = {} THEN S ELSE PathTo(g, S \cup more)

HasPathTo(n, target) == n \in PathTo(graph, {target})

\* the input templates expansion has replaced
Expanded == Range(input.nodes) \ Existing

AfterReconciliation == pc \notin {"config", "state", "obtain", "aborted", "expand", "cleanup"}

\* C1: the step that expands a template t with d outgoing and i incoming
\* edges into the n addresses the state reports leaves exactly those n new
\* nodes, n*d edges leaving them and n*i edges entering them, every instance
\* having the template's edges to the same destinations and from the same
\* sources.
C1_ExpansionConservation ==
  [][\A t \in Existing :
       t \notin DOMAIN graph'.Lookup =>
         LET inst == InstanceAddrs(input.list, graph.Lookup[t]["label"])
             n == Cardinality(inst)
             d == OutDegree(graph, t)
             i == InDegree(graph, t)
             others == Existing \ {t}
         IN /\ n >= 1
            /\ DOMAIN graph'.Lookup = others \cup inst
            /\ Cardinality(DOMAIN graph'.Lookup \ others) = n
            /\ \A x \in inst : Cardinality({k \in DOMAIN graph'.Nodes : graph'.Nodes[k] = x}) = 1
            /\ SumCounts(graph'.Edges, {e \in DOMAIN graph'.Edges : e[1] \in inst}) = n * d
            /\ SumCounts(graph'.Edges, {e \in DOMAIN graph'.Edges : e[2] \in inst}) = n * i
            /\ \A x \in inst : \A o \in others \cup inst :
                 /\ Count(graph'.Edges, <<x, o>>) = Count(graph.Edges, <<t, o>>)
                 /\ Count(graph'.Edges, <<o, x>>) = Count(graph.Edges, <<o, t>>)
    ]_vars

\* a template with two instances, an incoming and an outgoing edge was expanded
C1_Witness ==
  \E t \in Expanded :
    /\ Cardinality(InstanceAddrs(input.list, t)) = 2
    /\ InstanceAddrs(input.list, t) \subseteq Existing
    /\ \E e \in input.edges : e[1] = t
    /\ \E e \in input.edges : e[2] = t
    /\ \E e \in DOMAIN graph.Edges : e[1] \in InstanceAddrs(input.list, t)
    /\ \E e \in DOMAIN graph.Edges : e[2] \in InstanceAddrs(input.list, t)

\* C2: once CleanUpEdges has returned, no edge joins two labels that both carry
\* a bracketed marker with different markers, in any of the three edge indices;
\* of the edges between the instances of two cross-linked expanded resources
\* exactly those with equal markers remain.
C2_ReconciliationCorrect ==
  AfterReconciliation =>
    /\ \A e \in DOMAIN graph.Edges \cup {k \in DOMAIN graph.SrcToDsts : graph.SrcToDsts[k] > 0}
               \cup {<<k[2], k[1]>> : k \in {x \in DOMAIN graph.DstToSrcs : graph.DstToSrcs[x] > 0}} :
         LET mu == graph.Lookup[e[1]]["label"][3]
             mv == graph.Lookup[e[2]]["label"][3]
         IN (mu # <<>> /\ mv # <<>>) => mu = mv
    /\ \A e \in input.edges :
         (e[1] \in Expanded /\ e[2] \in Expanded) =>
           \A a \in InstanceAddrs(input.list, e[1]) : \A b \in InstanceAddrs(input.list, e[2]) :
             (<<a, b>> \in DOMAIN graph.Edges) <=> (a[3] = b[3])

\* two cross-linked resources with two instances each were expanded and reconciled
C2_Witness ==
  /\ AfterReconciliation
  /\ \E e \in input.edges :
       /\ e[1] \in Expanded /\ e[2] \in Expanded
       /\ Cardinality(InstanceAddrs(input.list, e[1])) = 2
       /\ Cardinality(InstanceAddrs(input.list, e[2])) = 2
       /\ <<<<e[1][1], e[1][2], <<1>>>>, <<e[2][1], e[2][2], <<1>>>>>> \in DOMAIN graph.Edges
       /\ Count(graph.SrcToDsts, <<<<e[1][1], e[1][2], <<0>>>>, <<e[2][1], e[2][2], <<1>>>>>>) = 0

\* C3: in every state every node and every cluster has at most one parent in
\* the containment index and is listed as a member by at most one parent, and
\* when the clustering loop has just handled a grouping node, that node's
\* cluster is the only parent of every node SetChildOf was called for.
C3_SingleParent ==
  /\ \A x \in Existing \cup DOMAIN graph.SubGraphs :
       /\ Cardinality(ParentsOf(x)) <= 1
       /\ Cardinality(ListedBy(x)) <= 1
  /\ (pc = "cluster" /\ nodeIdx > 1 /\ ResourceType(nodes[nodeIdx - 1]) \in groupingLabels) =>
       \A n \in findAllReachingNodes(graph, nodes[nodeIdx - 1]) :
         /\ ParentsOf(n) = {ClusterName(nodes[nodeIdx - 1])}
         /\ ListedBy(n) = {ClusterName(nodes[nodeIdx - 1])}

\* a node that was a member of one cluster has been moved into a later one
C3_Witness ==
  /\ pc = "cluster"
  /\ \E a, b \in DOMAIN nodes :
       /\ a < b /\ b < nodeIdx
       /\ HasCluster(nodes[a]) /\ HasCluster(nodes[b])
       /\ \E n \in Existing \ {nodes[a], nodes[b]} :
            /\ n \in findAllReachingNodes(graph, nodes[a])
            /\ ParentsOf(n) = {ClusterName(nodes[b])}

\* C7: an expanded template is gone from the node list, from both directions
\* of the containment index and from every edge index, and in every state
\* every edge endpoint in every edge index is an existing node.
C7_NoDanglingReferences ==
  LET keys == DOMAIN graph.Edges \cup DOMAIN graph.SrcToDsts
              \cup {<<k[2], k[1]>> : k \in DOMAIN graph.DstToSrcs}
  IN /\ Range(graph.Nodes) = Existing
     /\ \A t \in Expanded :
          /\ t \notin Range(graph.Nodes)
          /\ \A r \in graph.ParentToChildren \cup graph.ChildToParents : r[1] # t /\ r[2] # t
          /\ \A e \in keys : e[1] # t /\ e[2] # t
     /\ \A e \in keys : e[1] \in Existing /\ e[2] \in Existing

\* a template that had an incoming and an outgoing edge was expanded, and the
\* pass has finished
C7_Witness ==
  /\ pc = "done"
  /\ \E t \in Expanded : (\E e \in input.edges : e[1] = t) /\ (\E e \in input.edges : e[2] = t)

\* the clusters above x in the containment index
RECURSIVE AncestorsFrom(_)
AncestorsFrom(S) ==
  LET more == UNION {ParentsOf(x) : x \in S} \ S
  IN IF more = {} THEN S ELSE AncestorsFrom(S \cup more)

Ancestors(x) == AncestorsFrom(ParentsOf(x))

\* C4: at the end of the clustering pass a node n with forward paths to the
\* grouping nodes g and h, where h itself has a forward path to g, is not left
\* as a member of the outer cluster_g.
C4_InnermostContainment ==
  pc = "done" =>
    \A g, h \in Existing : \A n \in Existing \ {g, h} :
      (g # h /\ HasCluster(g) /\ HasCluster(h)
       /\ HasPathTo(n, g) /\ HasPathTo(n, h) /\ HasPathTo(h, g))
        => ClusterName(g) \notin ParentsOf(n)

\* C5: a second run on the same graph, state and configuration ends with the
\* root, the set of clusters and the parent of every node and cluster that
\* the first run ended with.
C5_Deterministic ==
  (pc = "done" /\ firstRun # <<>>) => Outcome = firstRun

\* C6: once ExpandNodeCreatedWithList has returned, no node is left that the
\* state reports as created with a list and whose instance list the adapter
\* returns.
C6_ExpansionComplete ==
  pc \notin {"config", "state", "obtain", "aborted", "expand"} =>
    \A n \in Existing \ failedList : ~IsCreatedWithList(input.list, n)

\* C8: at the end of the clustering pass, when the grouping node h has a
\* forward path to the grouping node g and both have clusters, cluster_g is
\* among the ancestors of cluster_h.
C8_NestedClusters ==
  pc = "done" =>
    \A g, h \in Existing :
      (g # h /\ HasCluster(g) /\ HasCluster(h) /\ HasPathTo(h, g))
        => ClusterName(g) \in Ancestors(ClusterName(h))

\* C9: at the end of the clustering pass every node whose resource type is a
\* grouping type has a cluster.
C9_ClusterForEveryGroupingNode ==
  pc = "done" =>
    \A n \in Existing : ResourceType(n) \in groupingLabels => HasCluster(n)

\* C10: a node whose resource type is not in the configured grouping_elements
\* never has a cluster.
C10_GroupingFromConfiguration ==
  \A n \in Existing : ResourceType(n) \notin cfg => ~HasCluster(n)

\* C11: when a graph has several nodes without outgoing edges, a second run
\* on the same input selects the root the first run selected.
C11_RootSelectionStable ==
  (firstRun # <<>> /\ pc \notin {"expand", "cleanup", "root"}) => root = firstRun.root

\* the bracketed marker of the label of node n in graph g, <<>> without one
MarkerOf(g, n) == g.Lookup[n]["label"][3]

\* C12: the step CleanUpEdges leaves the node list and every node's attributes
\* unchanged, raises the number of edges of no ordered pair in any of the three
\* edge indices, and keeps every edge of which at most one endpoint label
\* carries a marker or whose two markers are equal.
C12_ReconciliationFrame ==
  [][pc = "cleanup" =>
       /\ graph'.Nodes = graph.Nodes
       /\ graph'.Lookup = graph.Lookup
       /\ \A e \in (DOMAIN graph.Edges \cup DOMAIN graph'.Edges) :
            LET rev == <<e[2], e[1]>>
                kept == \/ MarkerOf(graph, e[1]) = <<>>
                        \/ MarkerOf(graph, e[2]) = <<>>
                        \/ MarkerOf(graph, e[1]) = MarkerOf(graph, e[2])
            IN /\ Count(graph'.Edges, e) <= Count(graph.Edges, e)
               /\ Count(graph'.SrcToDsts, e) <= Count(graph.SrcToDsts, e)
               /\ Count(graph'.DstToSrcs, rev) <= Count(graph.DstToSrcs, rev)
               /\ kept => /\ Count(graph'.Edges, e) = Count(graph.Edges, e)
                          /\ Count(graph'.SrcToDsts, e) = Count(graph.SrcToDsts, e)
                          /\ Count(graph'.DstToSrcs, rev) = Count(graph.DstToSrcs, rev)
    ]_vars

\* CleanUpEdges has just removed an edge between different markers and kept
\* an edge with one marked endpoint and an edge between equal markers
C12_Witness ==
  /\ pc = "root"
  /\ \E k \in DOMAIN graph.SrcToDsts : graph.SrcToDsts[k] = 0
  /\ \E e \in DOMAIN graph.Edges :
       MarkerOf(graph, e[1]) # <<>> /\ MarkerOf(graph, e[2]) = <<>>
  /\ \E e \in DOMAIN graph.Edges :
       MarkerOf(graph, e[1]) # <<>> /\ MarkerOf(graph, e[1]) = MarkerOf(graph, e[2])

\* the three edge indices of g hold the same multiset of ordered pairs
IndicesAgree(g) ==
  \A e \in DOMAIN g.Edges \cup DOMAIN g.SrcToDsts
           \cup {<<k[2], k[1]>> : k \in DOMAIN g.DstToSrcs} :
    /\ Count(g.SrcToDsts, e) = Count(g.Edges, e)
    /\ Count(g.DstToSrcs, <<e[2], e[1]>>) = Count(g.Edges, e)

\* C13: in every state the forward index, the reverse index and the flat edge
\* list hold the same multiset of ordered pairs, and when CleanUpEdges is
\* about to run, removeEdgeFromGraph applied to any edge of the graph removes
\* exactly one edge of that pair from each of the three.
C13_EdgeIndexConsistency ==
  /\ IndicesAgree(graph)
  /\ pc = "cleanup" =>
       \A e \in DOMAIN graph.Edges :
         LET g1 == removeEdgeFromGraph(graph, e)
         IN /\ IndicesAgree(g1)
            /\ Count(g1.Edges, e) = Count(graph.Edges, e) - 1
            /\ \A o \in DOMAIN graph.Edges \ {e} : Count(g1.Edges, o) = Count(graph.Edges, o)

\* CleanUpEdges has removed both parallel edges between two different markers
\* and kept both parallel edges between two equal markers
C13_Witness ==
  /\ pc = "root"
  /\ input.mult = 2
  /\ \E k \in DOMAIN graph.SrcToDsts : graph.SrcToDsts[k] = 0 /\ k \notin DOMAIN graph.Edges
  /\ \E e \in DOMAIN graph.Edges :
       /\ graph.Edges[e] = 2
       /\ MarkerOf(graph, e[1]) # <<>> /\ MarkerOf(graph, e[1]) = MarkerOf(graph, e[2])

\* C14: in every state every cluster has the top-level graph among its
\* ancestors and is not its own ancestor.
C14_AcyclicNesting ==
  \A c \in DOMAIN graph.SubGraphs :
    /\ c \notin Ancestors(c)
    /\ GraphName \in Ancestors(c)
    /\ Ancestors(c) \subseteq DOMAIN graph.SubGraphs \cup {GraphName}

\* the clustering loop has created a cluster inside a cluster inside a cluster
C14_Witness ==
  /\ pc = "cluster"
  /\ \E c, d, e \in DOMAIN graph.SubGraphs :
       ParentsOf(c) = {d} /\ ParentsOf(d) = {e} /\ ParentsOf(e) = {GraphName}

\* C15: at the end of the clustering pass a node that has no cluster of its
\* own and no path of edges to a node that has a cluster is a child of the
\* top-level graph and of nothing else.
C15_UncapturedStayTopLevel ==
  pc = "done" =>
    \A n \in Existing :
      (~HasCluster(n) /\ \A g \in Existing : HasCluster(g) => ~HasPathTo(n, g))
        => /\ ParentsOf(n) = {GraphName}
           /\ ListedBy(n) = {GraphName}

\* C16: the cluster created for a grouping node has that node's address as
\* its label.
C16_ClusterLabelIsAddress ==
  \A n \in Existing :
    HasCluster(n) => graph.SubGraphs[ClusterName(n)]["label"] = n

\* the destinations the active dfs calls have still to visit
Pending(st, vis) == UNION {st[k].todo : k \in DOMAIN st} \ vis

C17_DecorationIdempotent ==
  again # <<>> => (again.err = EmptyName /\ again.graph = graph)

\* C18: a state lookup that fails for one node does not make
\* PrepareGraphForPrinting return an error instead of the graph.
C18_LookupErrorNotFatal ==
  pc # "failed"

\* the nesting depth of cluster c: 1 directly under the top-level graph
Depth(c) == Cardinality(Ancestors(c))

\* C20: once SetSubgraphMargins has returned, every cluster's margin is
\* (maxDepth - depth + 1) * base for the maxDepth CalculateMaxDepth computes
\* and the cluster's own nesting depth.
C20_MarginFormula ==
  pc \in {"important", "done", "failed"} =>
    \A c \in DOMAIN graph.SubGraphs :
      graph.SubGraphs[c]["margin"] = (CalculateMaxDepth(graph) - Depth(c) + 1) * BaseMargin

\* the steps of Run at which SetSubgraphMargins has returned
MarginsAssigned == pc \in {"important", "done", "failed", "rendered"}

\* C21: once the margins are assigned, a cluster whose parent is another
\* cluster has a margin strictly smaller than its parent's.
C21_OuterClustersLarger ==
  MarginsAssigned =>
    \A c \in DOMAIN graph.SubGraphs :
      \A p \in ParentsOf(c) \cap DOMAIN graph.SubGraphs :
        graph.SubGraphs[p]["margin"] > graph.SubGraphs[c]["margin"]

\* the statements of PrepareGraphForPrinting in their order, and the step
\* of Run each step is followed by
StageOrder ==
  <<"expand", "cleanup", "root", "bfs", "cluster", "image", "nodeloc", "graphloc",
    "fontsize", "nodemargin", "submargin", "important">>

FollowedBy(p) ==
  CASE p = "config" -> {"state", "aborted"}
    [] p = "state" -> {"obtain", "aborted"}
    [] p = "obtain" -> {"expand", "aborted"}
    [] p = "important" -> {"done", "failed"}
    [] p = "done" -> {"rendered"}
    [] p \in {"aborted", "failed", "rendered"} -> {}
    [] OTHER -> {StageOrder[IndexIn(StageOrder, p) + 1]}

DecorationSteps ==
  {"image", "nodeloc", "graphloc", "fontsize", "nodemargin", "submargin", "important"}

\* C22: the stages run in the order expansion, reconciliation, clustering,
\* decoration, each starting only when the one before it has completed: the
\* expansion loops are exhausted when reconciliation starts, every node of the
\* BFS order is processed when the first decoration step starts, nodes are
\* created only during expansion, edges are removed only by reconciliation,
\* clusters are created only during clustering, and so every cluster of the
\* returned graph carries labelloc, fontsize and margin.
C22_StageOrdering ==
  /\ [][/\ pc' # pc => pc' \in FollowedBy(pc)
        /\ (pc = "expand" /\ pc' = "cleanup") => (stack = <<>> /\ rangeIdx > Len(rangeArr))
        /\ (pc = "bfs" /\ pc' = "cluster") => queue = <<>>
        /\ (pc = "cluster" /\ pc' = "image") => nodeIdx > Len(nodes)
        /\ DOMAIN graph'.Lookup # DOMAIN graph.Lookup => pc \in {"obtain", "expand"}
        /\ (\E e \in DOMAIN graph.Edges : Count(graph'.Edges, e) < graph.Edges[e])
             => (pc \in {"expand", "cleanup"})
        /\ (pc = "cleanup" /\ graph'.Edges # graph.Edges) => pc' = "root"
        /\ DOMAIN graph'.SubGraphs # DOMAIN graph.SubGraphs => pc = "cluster"
        /\ pc \in DecorationSteps =>
             (graph'.Edges = graph.Edges
              /\ graph'.ChildToParents = graph.ChildToParents)]_vars
  /\ [](pc \in {"done", "rendered"} =>
          \A c \in DOMAIN graph.SubGraphs :
            {"labelloc", "fontsize", "margin"} \subseteq DOMAIN graph.SubGraphs[c])

\* a run was rendered whose graph went through every stage: an expanded
\* template, a removed edge and a cluster inside a cluster
C22_Witness ==
  /\ pc = "rendered"
  /\ Expanded # {}
  /\ \E e \in DOMAIN graph.SrcToDsts :
       graph.SrcToDsts[e] = 0 /\ {e[1], e[2]} \subseteq Existing
  /\ \E c \in DOMAIN graph.SubGraphs :
       /\ ParentsOf(c) \cap DOMAIN graph.SubGraphs # {}
       /\ {"labelloc", "fontsize", "margin"} \subseteq DOMAIN graph.SubGraphs[c]

\* C23: when the state cannot be read or the dependency graph cannot be
\* obtained or parsed, Run is over: it holds no graph
\* (PrepareGraphForPrinting, if it was called, returned nil and the error), no
\* stage has touched anything, no further step is taken and the renderer is
\* never called.
C23_SourceUnavailableFatal ==
  /\ [](err \in {StateError, GraphError} =>
          /\ pc = "aborted"
          /\ graph = NilGraph
          /\ visited = {} /\ stack = <<>> /\ nodes = <<>> /\ failedList = {})
  /\ [][/\ pc # "aborted"
        /\ pc' = "rendered" => (err = EmptyName /\ graph # NilGraph)
        /\ (pc = "state" /\ pc' # "obtain") => err' = StateError
        /\ (pc = "obtain" /\ pc' # "expand") => err' = GraphError]_vars

\* ObtainGraph has failed in a run whose state was read
C23_Witness ==
  /\ pc = "aborted"
  /\ err = GraphError
  /\ input.list # {}

\* C25: the active configuration is the built-in one (three grouping types,
\* four important-attribute entries) until a LoadConfig call has succeeded,
\* after which it is the file's; a LoadConfig call whose file cannot be read
\* or parsed ends with the error and leaves the active configuration as it
\* was.
C25_ConfigurationDefaults ==
  /\ [](/\ (pc = "config" \/ input.configFile \in {NoConfigFile, UnreadableFile, MalformedFile})
           => /\ cfg = DefaultGroupingElements
              /\ Cardinality(cfg) = 3
              /\ ImportantAttributes(cfg) = DefaultImportantAttributes
              /\ Cardinality(ImportantAttributes(cfg)) = 4
        /\ (pc # "config" /\ input.configFile \notin {NoConfigFile, UnreadableFile, MalformedFile})
           => cfg = input.configFile[2]
        /\ err = ConfigError <=>
             (pc = "aborted" /\ input.configFile \in {UnreadableFile, MalformedFile}))
  /\ [][(pc = "config" /\ input.configFile \in {UnreadableFile, MalformedFile})
          => (err' = ConfigError /\ cfg' = cfg)]_vars

\* LoadConfig was called on a file that is not a configuration and has returned
\* its error
C25_Witness ==
  /\ input.configFile = MalformedFile
  /\ err = ConfigError
  /\ pc = "aborted"

\* C24: in the step that replaces a template by its instances, every
\* instance carries every attribute of the template with the template's
\* value, except label, which is the instance's own address, and every
\* instance has the parents the template had.
C24_InstanceAttributes ==
  [][\A t \in DOMAIN graph.Lookup \ DOMAIN graph'.Lookup :
       \A x \in DOMAIN graph'.Lookup \ DOMAIN graph.Lookup :
         /\ DOMAIN graph'.Lookup[x] = DOMAIN graph.Lookup[t] \cup {"label"}
         /\ \A k \in DOMAIN graph.Lookup[t] \ {"label"} :
              graph'.Lookup[x][k] = graph.Lookup[t][k]
         /\ graph'.Lookup[x]["label"] = x
         /\ {r[2] : r \in {y \in graph'.ChildToParents : y[1] = x}}
              = {r[2] : r \in {y \in graph.ChildToParents : y[1] = t}}
         /\ \A r \in {y \in graph.ChildToParents : y[1] = t} :
              <<r[2], x>> \in graph'.ParentToChildren]_vars

\* expansion has returned and left two instances of one template, each with
\* the template's shape and its own label
C24_Witness ==
  /\ pc = "cleanup"
  /\ \E x, y \in Existing :
       /\ x # y
       /\ x[1] = y[1] /\ x[2] = y[2]
       /\ IndexMarker(x) # NoIndex /\ IndexMarker(y) # NoIndex
       /\ graph.Lookup[x] = [ParsedAttrs(<<x[1], x[2], NoIndex>>) EXCEPT !["label"] = x]
       /\ ParentsOf(x) = {GraphName}

\* the least number of edges, followed from destination to source, that lead
\* from a node of `frontier` to n, counted from d; n is reachable that way
RECURSIVE DistanceFrom(_, _, _, _, _)
DistanceFrom(g, seen, frontier, d, n) ==
  IF n \in frontier THEN d
  ELSE DistanceFrom(g, seen \cup frontier,
                    UNION {SrcsOf(g, x) : x \in frontier} \ (seen \cup frontier),
                    d + 1, n)

\* C26: the list BFS returns holds exactly the nodes with a forward path to
\* the root, the root included, each of them once, the root first and the
\* others in non-decreasing order of their shortest distance from the root
\* along reversed edges.
C26_TraversalOrder ==
  pc = "cluster" =>
    /\ Range(nodes) = PathTo(graph, {root})
    /\ Len(nodes) = Cardinality(Range(nodes))
    /\ nodes[1] = root
    /\ \A i, j \in DOMAIN nodes :
         i < j => DistanceFrom(graph, {}, {root}, 0, nodes[i])
                    <= DistanceFrom(graph, {}, {root}, 0, nodes[j])

\* BFS has returned four nodes at three different distances from the root,
\* and left out a node that cannot reach the root
C26_Witness ==
  /\ pc = "cluster"
  /\ Len(nodes) = 4
  /\ DistanceFrom(graph, {}, {root}, 0, nodes[4]) = 2
  /\ DistanceFrom(graph, {}, {root}, 0, nodes[2]) = 1
  /\ Existing \ Range(nodes) # {}

\* C27: right after BetaCreateSubgraphsForGroupingNodes has processed the
\* grouping node g, the members of cluster_g are g and the nodes with a
\* forward path to g, and nothing else, and each of them has cluster_g as its
\* only parent.
C27_ClusterCaptureStep ==
  (pc = "cluster" /\ nodeIdx > 1 /\ foundGroupingResource(nodes[nodeIdx - 1])) =>
    LET g == nodes[nodeIdx - 1]
        members == PathTo(graph, {g})
    IN /\ ChildrenOf(graph, ClusterName(g)) = members
       /\ \A n \in members : ParentsOf(n) = {ClusterName(g)}

\* C28: at the end of the clustering pass every grouping node for which a
\* cluster was created is a direct member of that cluster.
C28_OwnClusterMembership ==
  pc = "image" =>
    \A n \in Existing :
      HasCluster(n) => (ClusterName(n) \in ParentsOf(n) /\ n \in ChildrenOf(graph, ClusterName(n)))

\* the names the two directions of the containment index may hold
Clusters == DOMAIN graph.SubGraphs

\* C29: in every state of expansion and clustering the two directions of the
\* containment index agree, every recorded child is an existing node or
\* cluster, and every recorded parent is the top-level graph or an existing
\* cluster.
C29_ContainmentIndexConsistency ==
  pc \in {"expand", "cleanup", "root", "bfs", "cluster", "image"} =>
    /\ \A r \in graph.ParentToChildren : <<r[2], r[1]>> \in graph.ChildToParents
    /\ \A r \in graph.ChildToParents : <<r[2], r[1]>> \in graph.ParentToChildren
    /\ \A r \in graph.ParentToChildren :
         /\ r[2] \in Existing \cup Clusters
         /\ r[1] \in {GraphName} \cup Clusters

\* clustering has moved an instance of an expanded template from the
\* top-level graph into a cluster that lies inside another cluster
C29_Witness ==
  /\ pc = "cluster"
  /\ Expanded # {}
  /\ \E x \in Existing, c \in Clusters :
       /\ IndexMarker(x) # NoIndex
       /\ <<c, x>> \in graph.ParentToChildren
       /\ ParentsOf(c) \cap Clusters # {}

\* Run has returned
Returned == pc \in {"rendered", "failed", "aborted"}

\* the steps of Run in their order
AllSteps == <<"config", "state", "obtain">> \o StageOrder \o <<"done">>

\* how many steps of Run are still to come when it is at step p
StepsLeft(p) == IF p \in Range(AllSteps) THEN Len(AllSteps) + 1 - IndexIn(AllSteps, p) ELSE 0

\* every name a node of the run's graph can have: the templates and the
\* instances the state lists
Universe == Range(input.nodes) \cup input.list

LoopBound == Cardinality(Universe) + 1

\* what the loops of the step Run is at can still do: the nodes not yet
\* visited, then the slots, queue entries or list entries not yet read
LoopsLeft ==
  CASE pc = "expand" ->
         Cardinality(Universe \ visited) * LoopBound + (Len(rangeArr) + 1 - rangeIdx)
    [] pc = "bfs" ->
         Cardinality(Universe \ bfsVisited) * LoopBound
           + SumCounts([k \in DOMAIN queue |-> Cardinality(queue[k])], DOMAIN queue)
    [] pc = "cluster" -> Len(nodes) + 1 - nodeIdx
    [] OTHER -> 0

Measure == StepsLeft(pc) * (LoopBound * LoopBound + LoopBound + 1) + LoopsLeft

====
